---------------------------- MODULE Spec2Model ----------------------------
(***************************************************************************)
(* A model of the retry crate: the delay strategies (src/delay/mod.rs),    *)
(* the three-way OperationResult (src/opresult.rs), the synchronous driver *)
(* retry_with_index (src/lib.rs), the async fn retry (src/async.rs) and    *)
(* the polled RetryFuture (src/asynchronous.rs).                           *)
(*                                                                         *)
(* Durations are whole numbers of milliseconds.  The three drivers are run *)
(* one after the other on the same delay sequence and the same operation,  *)
(* so that their results can be compared in one state.                     *)
(***************************************************************************)
EXTENDS Integers, Sequences, FiniteSets, TLC

VARIABLES
    delays,     \* the items of the Duration iterator handed to each driver
    opType,     \* the operation's return type: "Result" or "OperationResult"
    script,     \* script[j]: the value the operation returns on its j-th call
    sync,       \* retry_with_index (src/lib.rs): locals and observations
    asyn,       \* async fn retry (src/async.rs): locals and observations
    fut,        \* RetryFuture (src/asynchronous.rs): fields and observations
    exp,        \* an Exponential delay strategy (src/delay/mod.rs)
    yielded,    \* the values the strategy under test has yielded so far
    fib,        \* a Fibonacci delay strategy (src/delay/mod.rs)
    iter,       \* the built-in strategy a driver's delays are taken from
    range,      \* a Range delay strategy (src/delay/random.rs)
    jit,        \* a call of jitter (src/delay/random.rs)
    run1,       \* the first of two runs of retry_with_index
    parked,     \* a second RetryFuture, while the scheduler runs the first
    dur         \* the Duration a strategy was built from

vars == <<delays, opType, script, sync, asyn, fut, exp, yielded, fib, iter,
          range, jit, run1, parked, dur>>

-----------------------------------------------------------------------------
(* Bounds of the model *)

\* longest delay sequence handed to a driver
MaxDelays == 3

\* number of bits of the model's u64 (scaled down from 64)
U64Bits == 16

\* number of mantissa bits of the model's f64 (scaled down from 53)
F64Mant == 11

\* number of fraction bits kept for an f64 value: floats are counted in
\* units of 1 / 2^FracBits
FracBits == 2

\* number of values drawn from a delay strategy under test
MaxYield == 6

\* number of values a driver takes from a built-in strategy that never ends
MaxPull == 3

\* number of retries the counters of a RetryFuture that never ends follow
MaxSpin == 3

\* length of a delay sequence of values near the ends of Duration's range
MaxBig == 2

RECURSIVE Pow2(_)
Pow2(n) == IF n = 0 THEN 1 ELSE 2 * Pow2(n - 1)

\* std::u64::MAX
U64_MAX == Pow2(U64Bits) - 1

\* Duration::MAX in milliseconds: u64::MAX seconds and 999 milliseconds
DURATION_MAX == U64_MAX * 1000 + 999

\* payloads of the operation's success and error values
Vals == {"a", "b"}

\* the delays, in milliseconds, a driver's delay sequence is made of
DelayValues == {0, 1}

DelaySeqs == UNION {[1 .. n -> DelayValues] : n \in 0 .. MaxDelays}

RECURSIVE SumSeq(_)
SumSeq(s) == IF s = <<>> THEN 0 ELSE Head(s) + SumSeq(Tail(s))

\* the values of the variables of the parts a specification leaves out
NoIter == [kind |-> "None"]
NoRange == [kind |-> "None"]
NoJitter == [kind |-> "None"]
NoRun == [pc |-> "none"]
NoParked == [kind |-> "None"]
NoDuration == [kind |-> "None"]

-----------------------------------------------------------------------------
(* src/opresult.rs *)

\* enum OperationResult<T, E> { Ok(T), Retry(E), Err(E) }
OperationResult == [ty : {"OperationResult"}, kind : {"Ok", "Retry", "Err"}, val : Vals]

\* the plain Result<T, E> an operation may return instead
PlainResult == [ty : {"Result"}, kind : {"Ok", "Err"}, val : Vals]

\* the values an operation of return type t can return
ReturnValues(t) == IF t = "Result" THEN PlainResult ELSE OperationResult

From_ErrIsFatal(item) ==
    [ty |-> "OperationResult", kind |-> item.kind, val |-> item.val]

\* impl From<Result<T, E>> for OperationResult<T, E>
From(item) ==
    IF item.kind = "Ok"
    THEN [ty |-> "OperationResult", kind |-> "Ok", val |-> item.val]
    ELSE [ty |-> "OperationResult", kind |-> "Retry", val |-> item.val]

\* operation(..).into(): the conversion above for a plain Result, the
\* identity (impl From<T> for T) for an OperationResult
Into(r) == IF r.ty = "Result" THEN From(r) ELSE r

-----------------------------------------------------------------------------
(* The operation: a caller-supplied closure.  Its j-th call returns         *)
(* script[j]; the value is chosen when some driver first makes a j-th call *)
(* and is the same for the other drivers.                                  *)

Operation(j, r) ==
    /\ r \in ReturnValues(opType)
    /\ IF j <= Len(script)
       THEN r = script[j] /\ UNCHANGED script
       ELSE script' = Append(script, r)

\* Result<R, Error<E>>: Ok(value), or Err(Error { error, total_delay, tries })
NoResult == [kind |-> "None"]
ResOk(value) == [kind |-> "Ok", value |-> value]
ResErr(error, total_delay, tries) ==
    [kind |-> "Err", error |-> error, total_delay |-> total_delay, tries |-> tries]

Finished == {"done", "panicked"}


\* Duration's AddAssign: `total_delay += delay` panics ("overflow when adding
\* durations") when the sum is not representable
DurationOverflows(a, b) == a + b > DURATION_MAX

-----------------------------------------------------------------------------
(* src/lib.rs: retry_with_index.  retry(iterable, operation) is            *)
(* retry_with_index(iterable, |_| operation()): the same loop with the     *)
(* index discarded by the closure.                                         *)
(*   pc          "loop": at the top of the loop, about to call operation   *)
(*               "sleep": blocked in thread::sleep(delay)                  *)
(*   iterator    number of items taken from the Duration iterator          *)
(*   delay       the duration being slept                                  *)
(*   calls       observation: the argument of each call of the operation   *)
(*   sleeps      observation: the duration of each sleep started           *)
(*   nexts       observation: number of calls of iterator.next()           *)

SyncInit ==
    [pc |-> "loop", iterator |-> 0, current_try |-> 1, total_delay |-> 0,
     delay |-> 0, calls |-> <<>>, sleeps |-> <<>>, nexts |-> 0,
     result |-> NoResult]

SyncError_FirstError(s, error) ==
    [s EXCEPT !.pc = "done",
              !.result = ResErr(IF script = <<>> THEN error ELSE script[1].val,
                                s.total_delay, s.current_try)]

\* return Err(Error { error, total_delay, tries: current_try })
SyncError(s, error) ==
    [s EXCEPT !.pc = "done",
              !.result = ResErr(error, s.total_delay, s.current_try)]

SyncRetryArm_ZeroDelayStops(s, error) ==
    IF s.iterator < Len(delays) /\ delays[s.iterator + 1] # 0
    THEN [s EXCEPT !.iterator = @ + 1,
                   !.nexts = @ + 1,
                   !.delay = delays[s.iterator + 1],
                   !.sleeps = Append(@, delays[s.iterator + 1]),
                   !.pc = "sleep"]
    ELSE SyncError([s EXCEPT !.nexts = @ + 1], error)

\* OperationResult::Retry(error) => if let Some(delay) = iterator.next()
\* { sleep(delay); ... } else { return Err(..) }
SyncRetryArm(s, error) ==
    IF s.iterator < Len(delays)
    THEN [s EXCEPT !.iterator = @ + 1,
                   !.nexts = @ + 1,
                   !.delay = delays[s.iterator + 1],
                   !.sleeps = Append(@, delays[s.iterator + 1]),
                   !.pc = "sleep"]
    ELSE SyncError([s EXCEPT !.nexts = @ + 1], error)

SyncMatch_EagerNext(s, res) ==
    CASE res.kind = "Ok" ->
            [s EXCEPT !.pc = "done", !.result = ResOk(res.val),
                      !.nexts = @ + 1,
                      !.iterator = IF @ < Len(delays) THEN @ + 1 ELSE @]
      [] res.kind = "Retry" -> SyncRetryArm(s, res.val)
      [] res.kind = "Err" -> SyncError(s, res.val)

SyncMatch_FatalRetried(s, res) ==
    CASE res.kind = "Ok" -> [s EXCEPT !.pc = "done", !.result = ResOk(res.val)]
      [] res.kind = "Retry" -> SyncRetryArm(s, res.val)
      [] res.kind = "Err" -> SyncRetryArm(s, res.val)

\* match operation(current_try).into() { Ok(value) => return Ok(value),
\* Retry(error) => .., Err(error) => return Err(..) }
SyncMatch(s, res) ==
    CASE res.kind = "Ok" -> [s EXCEPT !.pc = "done", !.result = ResOk(res.val)]
      [] res.kind = "Retry" -> SyncRetryArm(s, res.val)
      [] res.kind = "Err" -> SyncError(s, res.val)

SyncArg_ZeroBased(s) == s.current_try - 1

\* the argument of operation(current_try)
SyncArg(s) == s.current_try

\* One turn of the loop up to the sleep: the operation is called and returns,
\* its value is converted and matched.
SyncAttempt ==
    /\ sync.pc = "loop"
    /\ \E r \in ReturnValues(opType) :
          /\ Operation(Len(sync.calls) + 1, r)
          /\ sync' = SyncMatch([sync EXCEPT !.calls = Append(@, SyncArg(sync))],
                               Into(r))
    /\ UNCHANGED <<delays, opType, asyn, fut, exp, yielded, fib,
                 iter, range, jit, run1,
                   parked, dur>>

SyncAfterSleep_FirstTry(s) ==
    IF DurationOverflows(s.total_delay, s.delay)
    THEN [s EXCEPT !.pc = "panicked"]
    ELSE [s EXCEPT !.total_delay = @ + s.delay, !.pc = "loop"]

SyncAfterSleep_NoAdd(s) ==
    [s EXCEPT !.current_try = @ + 1, !.pc = "loop"]

\* current_try += 1; total_delay += delay;
SyncAfterSleep(s) ==
    IF DurationOverflows(s.total_delay, s.delay)
    THEN [s EXCEPT !.current_try = @ + 1, !.pc = "panicked"]
    ELSE [s EXCEPT !.current_try = @ + 1,
                   !.total_delay = @ + s.delay,
                   !.pc = "loop"]

\* thread::sleep(delay) returns
SyncWake ==
    /\ sync.pc = "sleep"
    /\ sync' = SyncAfterSleep(sync)
    /\ UNCHANGED <<delays, opType, script, asyn, fut, exp, yielded, fib,
                 iter, range, jit, run1,
                   parked, dur>>

\* retry_with_index has returned and is called a second time, with the same
\* operation (its j-th call returns script[j] again) and a delay sequence of
\* the same length; run1 keeps the first run and the delays it was given
Rerun ==
    /\ sync.pc \in Finished
    /\ run1 = NoRun
    /\ \E d \in DelaySeqs :
          /\ Len(d) = Len(delays)
          /\ delays' = d
    /\ run1' = [pc |-> "ran", delays |-> delays, run |-> sync]
    /\ sync' = SyncInit
    /\ UNCHANGED <<opType, script, asyn, fut, exp, yielded, fib, iter, range,
                   jit,
                   parked, dur>>

-----------------------------------------------------------------------------
(* src/async.rs: async fn retry.  The two suspension points are            *)
(* operation().await and task::sleep(delay).await.                         *)
(*   pc          "loop": at the top of the loop, about to call operation   *)
(*               "op": suspended in operation().await                      *)
(*               "sleep": suspended in task::sleep(delay).await            *)
(*   durations   number of items taken from the Duration iterator          *)
(*   calls       observation: number of calls of the operation             *)

AsyncInit ==
    [pc |-> "loop", durations |-> 0, current_try |-> 1, total_delay |-> 0,
     delay |-> 0, calls |-> 0, sleeps |-> <<>>, nexts |-> 0,
     result |-> NoResult]

\* return Err(Error::Operation { error, total_delay, tries: current_try })
AsyncError(s, error) ==
    [s EXCEPT !.pc = "done",
              !.result = ResErr(error, s.total_delay, s.current_try)]

AsyncRetryArm_NoSleep(s, error) ==
    IF s.durations < Len(delays)
    THEN [s EXCEPT !.durations = @ + 1,
                   !.nexts = @ + 1,
                   !.pc = "loop"]
    ELSE AsyncError([s EXCEPT !.nexts = @ + 1], error)
\* OperationResult::Retry(error) => if let Some(delay) = durations.next()
\* { task::sleep(delay).await; ... } else { return Err(..) }
AsyncRetryArm(s, error) ==
    IF s.durations < Len(delays)
    THEN [s EXCEPT !.durations = @ + 1,
                   !.nexts = @ + 1,
                   !.delay = delays[s.durations + 1],
                   !.sleeps = Append(@, delays[s.durations + 1]),
                   !.pc = "sleep"]
    ELSE AsyncError([s EXCEPT !.nexts = @ + 1], error)

\* match operation().await.into() { .. }
AsyncMatch(s, res) ==
    CASE res.kind = "Ok" -> [s EXCEPT !.pc = "done", !.result = ResOk(res.val)]
      [] res.kind = "Retry" -> AsyncRetryArm(s, res.val)
      [] res.kind = "Err" -> AsyncError(s, res.val)

\* operation() is called and the future it returns is awaited
AsyncCall ==
    /\ sync.pc \in Finished
    /\ asyn.pc = "loop"
    /\ asyn' = [asyn EXCEPT !.calls = @ + 1, !.pc = "op"]
    /\ UNCHANGED <<delays, opType, script, sync, fut, exp, yielded, fib,
                 iter, range, jit, run1,
                   parked, dur>>

\* the operation's future completes with r
AsyncOpReady ==
    /\ asyn.pc = "op"
    /\ \E r \in ReturnValues(opType) :
          /\ Operation(asyn.calls, r)
          /\ asyn' = AsyncMatch(asyn, Into(r))
    /\ UNCHANGED <<delays, opType, sync, fut, exp, yielded, fib,
                 iter, range, jit, run1,
                   parked, dur>>

\* current_try += 1; total_delay += delay;
AsyncAfterSleep(s) ==
    IF DurationOverflows(s.total_delay, s.delay)
    THEN [s EXCEPT !.current_try = @ + 1, !.pc = "panicked"]
    ELSE [s EXCEPT !.current_try = @ + 1,
                   !.total_delay = @ + s.delay,
                   !.pc = "loop"]

\* task::sleep(delay) completes
AsyncWake ==
    /\ asyn.pc = "sleep"
    /\ asyn' = AsyncAfterSleep(asyn)
    /\ UNCHANGED <<delays, opType, script, sync, fut, exp, yielded, fib,
                 iter, range, jit, run1,
                   parked, dur>>

-----------------------------------------------------------------------------
(* src/asynchronous.rs: RetryFuture.                                       *)
(*   pc          "new": not constructed; "idle": between two polls;        *)
(*               "poll": inside poll, at the match on self.state           *)
(*   delay       number of items taken from the Duration iterator          *)
(*   state       RetryState: "Running" (the operation's future) or         *)
(*               "Sleeping" (the sleep's future)                           *)
(*   ready       the future held by state has completed                    *)
(*   registered  the future held by state was polled and reported Pending  *)
(*               (it holds the task's waker)                               *)
(*   woken       the task has been woken since its last poll               *)
(*   calls, sleeps, nexts   observations, as for the other drivers         *)

FutNew ==
    [pc |-> "new", delay |-> 0, state |-> "None", total_delay |-> 0,
     tries |-> 0, ready |-> FALSE, registered |-> FALSE, woken |-> FALSE,
     calls |-> 0, sleeps |-> <<>>, nexts |-> 0, result |-> NoResult]

spawn_NotStarted ==
    [pc |-> "idle", delay |-> 0, state |-> "Running", total_delay |-> 0,
     tries |-> 0, ready |-> FALSE, registered |-> FALSE, woken |-> TRUE,
     calls |-> 0, sleeps |-> <<>>, nexts |-> 0, result |-> NoResult]
\* RetryFuture::spawn: state: RetryState::Running(operation()), tries: 1
spawn ==
    [pc |-> "idle", delay |-> 0, state |-> "Running", total_delay |-> 0,
     tries |-> 1, ready |-> FALSE, registered |-> FALSE, woken |-> TRUE,
     calls |-> 1, sleeps |-> <<>>, nexts |-> 0, result |-> NoResult]

\* retry(sleep, iterable, operation) constructs the future
FutSpawn ==
    /\ asyn.pc \in Finished
    /\ fut.pc = "new"
    /\ fut' = spawn
    /\ UNCHANGED <<delays, opType, script, sync, asyn, exp, yielded, fib,
                 iter, range, jit, run1,
                   parked, dur>>

attempt_ReturnsPending(s) ==
    [s EXCEPT !.calls = @ + 1, !.state = "Running", !.ready = FALSE,
              !.registered = FALSE, !.pc = "idle"]
attempt_StartsTwo(s) ==
    [s EXCEPT !.calls = @ + 2, !.state = "Running", !.ready = FALSE,
              !.registered = FALSE]
\* RetryFuture::attempt: self.state = RetryState::Running((self.operation)())
attempt(s) ==
    [s EXCEPT !.calls = @ + 1,
              !.state = "Running", !.ready = FALSE, !.registered = FALSE]

retry_GivesUpEarly(s, err) ==
    IF s.delay + 1 < Len(delays)
    THEN LET duration == delays[s.delay + 1]
             t == [s EXCEPT !.delay = @ + 1, !.nexts = @ + 1]
         IN  [t EXCEPT !.total_delay = @ + duration,
                       !.tries = @ + 1,
                       !.sleeps = Append(@, duration),
                       !.state = "Sleeping",
                       !.ready = FALSE, !.registered = FALSE]
    ELSE [s EXCEPT !.nexts = @ + 1, !.pc = "done",
                   !.result = ResErr(err, s.total_delay, s.tries)]
retry_DropsDelay(s, err) ==
    IF s.delay < Len(delays)
    THEN LET duration == delays[s.delay + 1]
             t == [s EXCEPT !.delay = @ + 1, !.nexts = @ + 1]
         IN  [t EXCEPT !.tries = @ + 1,
                       !.sleeps = Append(@, duration),
                       !.state = "Sleeping",
                       !.ready = FALSE, !.registered = FALSE]
    ELSE [s EXCEPT !.nexts = @ + 1, !.pc = "done",
                   !.result = ResErr(err, s.total_delay, s.tries)]
retry_AsksAgain(s, err) ==
    IF s.delay < Len(delays)
    THEN LET duration == delays[s.delay + 1]
             t == [s EXCEPT !.delay = @ + 1, !.nexts = @ + 1]
         IN  [t EXCEPT !.total_delay = @ + duration,
                       !.tries = @ + 1,
                       !.sleeps = Append(@, duration),
                       !.state = "Sleeping",
                       !.ready = FALSE, !.registered = FALSE]
    ELSE [s EXCEPT !.nexts = @ + 2, !.pc = "done",
                   !.result = ResErr(err, s.total_delay, s.tries)]
\* RetryFuture::retry: match self.delay.next() { None => Err(Error::Operation
\* {..}), Some(duration) => { self.total_delay += duration; self.tries += 1;
\* self.state = RetryState::Sleeping(self.sleep.sleep(duration)); Ok(()) } }
\* On Err the caller returns Poll::Ready(Err(e)); on Ok(()) it polls again.
retry(s, err) ==
    IF s.delay < Len(delays)
    THEN LET duration == delays[s.delay + 1]
             t == [s EXCEPT !.delay = @ + 1, !.nexts = @ + 1]
         IN  IF DurationOverflows(s.total_delay, duration)
             THEN [t EXCEPT !.pc = "panicked"]
             ELSE [t EXCEPT !.total_delay = @ + duration,
                            !.tries = @ + 1,
                            !.sleeps = Append(@, duration),
                            !.state = "Sleeping",
                            !.ready = FALSE,
                            !.registered = FALSE]
    ELSE [s EXCEPT !.nexts = @ + 1,
                   !.pc = "done",
                   !.result = ResErr(err, s.total_delay, s.tries)]

\* what try_poll reports for an operation whose future completed with r: a
\* TryFuture has one error channel, Result::Err, so every failure of the
\* operation arrives as Err
TryOutput(r) == [kind |-> IF r.kind = "Ok" THEN "Ok" ELSE "Err", val |-> r.val]

Pending_Reattempts(s) ==
    [s EXCEPT !.pc = "idle", !.registered = TRUE, !.calls = @ + 1]

\* Poll::Pending => Poll::Pending: the sub-future keeps the waker
Pending(s) == [s EXCEPT !.pc = "idle", !.registered = TRUE]

PollRunningReady_ReturnsPending(s, out) ==
    IF out.kind = "Ok"
    THEN [s EXCEPT !.pc = "done", !.result = ResOk(out.val)]
    ELSE LET t == retry(s, out.val)
         IN  IF t.pc = "poll" THEN [t EXCEPT !.pc = "idle"] ELSE t

\* the arms Poll::Ready(Ok(..)) and Poll::Ready(Err(err)) of the Running case
PollRunningReady(s, out) ==
    IF out.kind = "Ok"
    THEN [s EXCEPT !.pc = "done", !.result = ResOk(out.val)]
    ELSE retry(s, out.val)

\* the operation's future completes
FutOpCompletes ==
    /\ fut.pc \in {"idle", "poll"}
    /\ fut.state = "Running"
    /\ ~fut.ready
    /\ fut' = [fut EXCEPT !.ready = TRUE, !.woken = @ \/ fut.registered]
    /\ UNCHANGED <<delays, opType, script, sync, asyn, exp, yielded, fib,
                 iter, range, jit, run1,
                   parked, dur>>

\* the sleep's future completes
FutSleepCompletes ==
    /\ fut.pc \in {"idle", "poll"}
    /\ fut.state = "Sleeping"
    /\ ~fut.ready
    /\ fut' = [fut EXCEPT !.ready = TRUE, !.woken = @ \/ fut.registered]
    /\ UNCHANGED <<delays, opType, script, sync, asyn, exp, yielded, fib,
                 iter, range, jit, run1,
                   parked, dur>>

\* the host calls poll
FutPoll ==
    /\ fut.pc = "idle"
    /\ fut' = [fut EXCEPT !.pc = "poll", !.woken = FALSE]
    /\ UNCHANGED <<delays, opType, script, sync, asyn, exp, yielded, fib,
                 iter, range, jit, run1,
                   parked, dur>>

\* poll, case RetryState::Running(future): future.try_poll(cx).  After a
\* successful self.retry(err) the function calls self.poll(cx): pc stays
\* "poll" and the match is entered again.
FutPollRunning ==
    /\ fut.pc = "poll"
    /\ fut.state = "Running"
    /\ IF ~fut.ready
       THEN fut' = Pending(fut) /\ UNCHANGED script
       ELSE \E r \in ReturnValues(opType) :
               /\ Operation(fut.calls, r)
               /\ fut' = PollRunningReady(fut, TryOutput(r))
    /\ UNCHANGED <<delays, opType, sync, asyn, exp, yielded, fib,
                 iter, range, jit, run1,
                   parked, dur>>

\* poll, case RetryState::Sleeping(future): future.poll(cx).  On Ready(())
\* the function calls self.attempt() and then self.poll(cx).
FutPollSleeping ==
    /\ fut.pc = "poll"
    /\ fut.state = "Sleeping"
    /\ fut' = IF ~fut.ready THEN Pending(fut) ELSE attempt(fut)
    /\ UNCHANGED <<delays, opType, script, sync, asyn, exp, yielded, fib,
                 iter, range, jit, run1,
                   parked, dur>>

-----------------------------------------------------------------------------
(* f64 arithmetic, as far as Exponential uses it.  A float is held as the  *)
(* integer number of units of 1 / FScale it is worth; every result is      *)
(* rounded to F64Mant significant bits, ties to even, as IEEE 754 does.    *)

FScale == Pow2(FracBits)

RECURSIVE BitLen(_)
BitLen(n) == IF n = 0 THEN 0 ELSE 1 + BitLen(n \div 2)

\* m >= 0 rounded to F64Mant significant bits, ties to even
RoundMant(m) ==
    IF BitLen(m) <= F64Mant
    THEN m
    ELSE LET sh == Pow2(BitLen(m) - F64Mant)
             q == m \div sh
             r == m % sh
             up == r * 2 > sh \/ (r * 2 = sh /\ q % 2 = 1)
         IN  (IF up THEN q + 1 ELSE q) * sh

RoundF(x) == IF x < 0 THEN 0 - RoundMant(0 - x) ELSE RoundMant(x)

\* `n as f64` for a u64 n
AsF64(n) == RoundF(n * FScale)

\* `a * b` for the f64 a == (n as f64), a whole number, and the f64 b
MulF64(a, b) == RoundF((a \div FScale) * b)

AsU64_Nearest(x) ==
    IF x < 0 THEN 0
    ELSE IF (x + FScale \div 2) \div FScale > U64_MAX THEN U64_MAX
    ELSE (x + FScale \div 2) \div FScale

\* `x as u64` for an f64 x: truncated toward zero, saturating at 0 and
\* u64::MAX
AsU64(x) ==
    IF x < 0 THEN 0
    ELSE IF x \div FScale > U64_MAX THEN U64_MAX
    ELSE x \div FScale

-----------------------------------------------------------------------------
(* src/delay/mod.rs: Exponential { current: u64, factor: f64 }.            *)
(* base and ctor record how the strategy was constructed.                  *)

\* Exponential::from_millis(base): factor: 2.0
from_millis(base) ==
    [current |-> base, factor |-> 2 * FScale, base |-> base,
     ctor |-> "from_millis"]

\* Exponential::from_millis_with_factor(base, factor)
from_millis_with_factor(base, factor) ==
    [current |-> base, factor |-> factor, base |-> base,
     ctor |-> "from_millis_with_factor"]

ExponentialStep_Wraps(e) ==
    LET next == MulF64(AsF64(e.current), e.factor)
    IN  IF next < 0 THEN 0 ELSE (next \div FScale) % Pow2(U64Bits)

\* let next = (self.current as f64) * self.factor;
\* self.current = if next > (U64_MAX as f64) { U64_MAX } else { next as u64 };
ExponentialStep(e) ==
    LET next == MulF64(AsF64(e.current), e.factor)
    IN  IF next > AsF64(U64_MAX) THEN U64_MAX ELSE AsU64(next)

\* impl Iterator for Exponential: next() yields
\* Duration::from_millis(self.current) and advances self.current
ExponentialNext ==
    /\ Len(yielded) < MaxYield
    /\ yielded' = Append(yielded, exp.current)
    /\ exp' = [exp EXCEPT !.current = ExponentialStep(exp)]
    /\ UNCHANGED <<delays, opType, script, sync, asyn, fut, fib, iter, range,
                   jit, run1,
                   parked, dur>>

\* the bases and factors the strategy is started with
\* 23831 is a base that `as f64` rounds down, to 23824, and whose product
\* with 2.75 is just above a u64 of U64Bits bits
Bases ==
    {0, 1, 2, 3, 10, 1000, Pow2(F64Mant) + 1, Pow2(F64Mant) + 3, 23831,
     U64_MAX \div 2, U64_MAX - 1, U64_MAX}

\* -1.0, 0.0, 0.5, 1.0, 1.0 + 1/FScale, 1.5, 2.0, 2.75, 3.0
Factors ==
    {0 - FScale, 0, FScale \div 2, FScale, FScale + 1, (3 * FScale) \div 2,
     2 * FScale, (11 * FScale) \div 4, 3 * FScale}

-----------------------------------------------------------------------------
(* src/delay/mod.rs: Fibonacci { curr: u64, next: u64 }.                   *)
(* base records the argument of the constructor.                           *)

\* Fibonacci::from_millis(millis)
Fibonacci_from_millis(millis) ==
    [curr |-> millis, next |-> millis, base |-> millis]

\* self.curr.checked_add(self.next): None on overflow
checked_add(a, b) ==
    IF a + b > U64_MAX THEN [kind |-> "None"] ELSE [kind |-> "Some", val |-> a + b]

FibonacciStep_Doubles(f) ==
    LET next_next == checked_add(f.next, f.next)
    IN  IF next_next.kind = "Some"
        THEN [f EXCEPT !.curr = f.next, !.next = next_next.val]
        ELSE [f EXCEPT !.curr = f.next, !.next = U64_MAX]

FibonacciStep_Wraps(f) ==
    [f EXCEPT !.curr = f.next, !.next = (f.curr + f.next) % Pow2(U64Bits)]

\* if let Some(next_next) = self.curr.checked_add(self.next) { self.curr =
\* self.next; self.next = next_next; } else { self.curr = self.next;
\* self.next = U64_MAX; }
FibonacciStep(f) ==
    LET next_next == checked_add(f.curr, f.next)
    IN  IF next_next.kind = "Some"
        THEN [f EXCEPT !.curr = f.next, !.next = next_next.val]
        ELSE [f EXCEPT !.curr = f.next, !.next = U64_MAX]

\* impl Iterator for Fibonacci: next() yields Duration::from_millis(self.curr)
\* and advances the pair
FibonacciNext ==
    /\ Len(yielded) < MaxYield
    /\ yielded' = Append(yielded, fib.curr)
    /\ fib' = FibonacciStep(fib)
    /\ UNCHANGED <<delays, opType, script, sync, asyn, fut, exp, iter, range,
                   jit, run1,
                   parked, dur>>

\* the bases a Fibonacci strategy is started with
FibBases ==
    (0 .. 12) \cup {1000, 5000, 10000, U64_MAX \div 8, U64_MAX \div 5,
                    U64_MAX \div 3, U64_MAX \div 2, (U64_MAX \div 2) + 1,
                    U64_MAX - 1, U64_MAX}

-----------------------------------------------------------------------------
(* src/delay/mod.rs: Fixed { duration: Duration } and NoDelay, and a       *)
(* built-in strategy used as the Duration iterator of a driver.            *)

\* Option<Duration>
None == [kind |-> "None"]
Some(duration) == [kind |-> "Some", val |-> duration]

\* Fixed::from_millis(millis)
Fixed_from_millis(millis) == [kind |-> "Fixed", duration |-> millis, ended |-> FALSE]

\* struct NoDelay
NoDelay == [kind |-> "NoDelay", ended |-> FALSE]

Fixed_next_ZeroEnds(f) == IF f.duration = 0 THEN None ELSE Some(f.duration)

\* impl Iterator for Fixed: Some(self.duration)
Fixed_next(f) == Some(f.duration)

\* impl Iterator for NoDelay: Some(Duration::default())
NoDelay_next == Some(0)

\* the strategy is an Exponential (held in exp) or a Fibonacci (held in fib)
IterExponential == [kind |-> "Exponential", ended |-> FALSE]
IterFibonacci == [kind |-> "Fibonacci", ended |-> FALSE]

\* what next() returns on the strategy the driver was given
IterItem ==
    CASE iter.kind = "Fixed" -> Fixed_next(iter)
      [] iter.kind = "NoDelay" -> NoDelay_next
      [] iter.kind = "Exponential" -> Some(exp.current)
      [] iter.kind = "Fibonacci" -> Some(fib.curr)

\* the number of items the drivers have taken from their iterator
Taken == sync.iterator + asyn.durations + fut.delay

\* One call of next() on the strategy.  The strategies do not depend on the
\* driver, so the item of the driver's next call of iterator.next() is
\* computed ahead of it: delays holds the items computed so far, and ended
\* records that next() returned None.
IterNext ==
    /\ iter.kind # "None"
    /\ ~iter.ended
    /\ Len(delays) < MaxPull
    /\ Len(delays) <= Taken
    /\ IF IterItem.kind = "Some"
       THEN /\ delays' = Append(delays, IterItem.val)
            /\ yielded' = Append(yielded, IterItem.val)
            /\ UNCHANGED iter
       ELSE /\ iter' = [iter EXCEPT !.ended = TRUE]
            /\ UNCHANGED <<delays, yielded>>
    /\ exp' = IF iter.kind = "Exponential"
              THEN [exp EXCEPT !.current = ExponentialStep(exp)]
              ELSE exp
    /\ fib' = IF iter.kind = "Fibonacci" THEN FibonacciStep(fib) ELSE fib
    /\ UNCHANGED <<opType, script, sync, asyn, fut, range, jit, run1,
                   parked, dur>>

\* the answer of the iterator to a driver that has taken n items is known
HasItem(n) == Len(delays) > n \/ iter.ended

-----------------------------------------------------------------------------
(* src/delay/random.rs: Range { distribution: Uniform<u64>, rng }.         *)
(*   ctor, minimum, maximum   the constructor called and its arguments     *)
(*   outcome    "Ok": a Range was returned; "Err": Err(UniformError) was   *)
(*              returned; "panic": the constructor panicked                *)
(*   low, high  the least and the greatest value the distribution samples  *)

\* the millisecond values a Range is constructed from
RangeMillis == {0, 1, 2}

\* Uniform::new(low, high): Err(Error::EmptyRange) unless low < high; the
\* distribution samples low ..= high - 1
Uniform_new(low, high) ==
    IF low < high
    THEN [kind |-> "Ok", low |-> low, high |-> high - 1]
    ELSE [kind |-> "Err"]

Uniform_new_inclusive_Strict(low, high) ==
    IF low < high
    THEN [kind |-> "Ok", low |-> low, high |-> high]
    ELSE [kind |-> "Err"]

\* Uniform::new_inclusive(low, high): Err(Error::EmptyRange) unless
\* low <= high; the distribution samples low ..= high
Uniform_new_inclusive(low, high) ==
    IF low <= high
    THEN [kind |-> "Ok", low |-> low, high |-> high]
    ELSE [kind |-> "Err"]

\* Range { distribution: d.expect(..), .. }: expect panics on Err
Expect(ctor, minimum, maximum, d) ==
    IF d.kind = "Ok"
    THEN [kind |-> "Range", ctor |-> ctor, minimum |-> minimum,
          maximum |-> maximum, outcome |-> "Ok", low |-> d.low, high |-> d.high]
    ELSE [kind |-> "Range", ctor |-> ctor, minimum |-> minimum,
          maximum |-> maximum, outcome |-> "panic", low |-> 0, high |-> 0]

\* Ok(Range { distribution: d?, .. }): the operator ? returns the Err
Try(ctor, minimum, maximum, d) ==
    IF d.kind = "Ok"
    THEN [kind |-> "Range", ctor |-> ctor, minimum |-> minimum,
          maximum |-> maximum, outcome |-> "Ok", low |-> d.low, high |-> d.high]
    ELSE [kind |-> "Range", ctor |-> ctor, minimum |-> minimum,
          maximum |-> maximum, outcome |-> "Err", low |-> 0, high |-> 0]

\* Range::from_millis_exclusive(minimum, maximum)
from_millis_exclusive(minimum, maximum) ==
    Expect("from_millis_exclusive", minimum, maximum, Uniform_new(minimum, maximum))

\* Range::try_from_millis_exclusive(minimum, maximum)
try_from_millis_exclusive(minimum, maximum) ==
    Try("try_from_millis_exclusive", minimum, maximum, Uniform_new(minimum, maximum))

\* Range::from_millis_inclusive(minimum, maximum)
from_millis_inclusive(minimum, maximum) ==
    Expect("from_millis_inclusive", minimum, maximum,
           Uniform_new_inclusive(minimum, maximum))

\* Range::try_from_millis_inclusive(minimum, maximum)
try_from_millis_inclusive(minimum, maximum) ==
    Try("try_from_millis_inclusive", minimum, maximum,
        Uniform_new_inclusive(minimum, maximum))

\* one of the four constructors is called
RangeConstruct ==
    /\ range = NoRange
    /\ \E minimum \in RangeMillis, maximum \in RangeMillis :
          range' \in {from_millis_exclusive(minimum, maximum),
                      try_from_millis_exclusive(minimum, maximum),
                      from_millis_inclusive(minimum, maximum),
                      try_from_millis_inclusive(minimum, maximum)}
    /\ UNCHANGED <<delays, opType, script, sync, asyn, fut, exp, yielded, fib,
                   iter, jit, run1,
                   parked, dur>>

\* impl Iterator for Range: next() yields
\* Duration::from_millis(self.distribution.sample(&mut self.rng))
RangeNext ==
    /\ range # NoRange
    /\ range.outcome = "Ok"
    /\ Len(yielded) < MaxYield
    /\ \E v \in range.low .. range.high : yielded' = Append(yielded, v)
    /\ UNCHANGED <<delays, opType, script, sync, asyn, fut, exp, fib, iter,
                   range, jit, run1,
                   parked, dur>>

-----------------------------------------------------------------------------
(* src/delay/random.rs: jitter.  A Duration is a number of whole seconds   *)
(* and a number of sub-second nanoseconds.  The random fraction is held as *)
(* the number of units of 1 / JScale it is worth, and so are the products. *)

\* nanoseconds per second, scaled down from 1_000_000_000 with the f64
\* mantissa: a u32 of sub-second nanoseconds converts to f64 exactly
NANOS_PER_SEC == 1000

\* the unit of random::<f64>(): the values are the multiples of 2^-53 in
\* [0, 1), 53 being the width of the mantissa
JScale == Pow2(F64Mant)

\* the durations jitter is applied to
JitterSecs ==
    {0, 1, 2, 3, 5, Pow2(F64Mant) + 1, Pow2(F64Mant) + 3, U64_MAX - 1, U64_MAX}
JitterNanos == {0, 1, 2, NANOS_PER_SEC - 1}
JitterDurations == [secs : JitterSecs, nanos : JitterNanos]

\* f64::ceil followed by `as u64`, for x >= 0 in units of 1 / JScale
CeilAsU64(x) ==
    LET c == (x + JScale - 1) \div JScale
    IN  IF c > U64_MAX THEN U64_MAX ELSE c

\* Duration::new(secs, nanos): whole seconds of nanos are carried into secs
Duration_new(secs, nanos) ==
    [secs |-> secs + nanos \div NANOS_PER_SEC, nanos |-> nanos % NANOS_PER_SEC]

jitter_Floor(duration, f) ==
    Duration_new(RoundMant(RoundMant(duration.secs) * f) \div JScale,
                 RoundMant(duration.nanos * f) \div JScale)

\* let jitter = random::<f64>();   (here f)
\* let secs = ((duration.as_secs() as f64) * jitter).ceil() as u64;
\* let nanos = ((f64::from(duration.subsec_nanos())) * jitter).ceil() as u32;
\* Duration::new(secs, nanos)
jitter(duration, f) ==
    Duration_new(CeilAsU64(RoundMant(RoundMant(duration.secs) * f)),
                 CeilAsU64(RoundMant(duration.nanos * f)))

\* jitter(duration) is called and random::<f64>() returns f / JScale
Jitter ==
    /\ jit.kind = "Duration"
    /\ \E f \in 0 .. (JScale - 1) :
          jit' = [kind |-> "Jitter", duration |-> jit.duration, f |-> f,
                  result |-> jitter(jit.duration, f)]
    /\ UNCHANGED <<delays, opType, script, sync, asyn, fut, exp, yielded, fib,
                   iter, range, run1,
                   parked, dur>>

-----------------------------------------------------------------------------
(* Specifications *)

\* The drivers: each is given the same delay sequence and the same operation.
Init ==
    /\ delays \in DelaySeqs
    /\ opType \in {"Result", "OperationResult"}
    /\ script = <<>>
    /\ sync = SyncInit
    /\ asyn = AsyncInit
    /\ fut = FutNew
    /\ exp = from_millis(0)
    /\ yielded = <<>>
    /\ fib = Fibonacci_from_millis(0)
    /\ iter = NoIter
    /\ range = NoRange
    /\ jit = NoJitter
    /\ run1 = NoRun
    /\ parked = NoParked
    /\ dur = NoDuration

Next ==
    \/ SyncAttempt
    \/ SyncWake
    \/ AsyncCall
    \/ AsyncOpReady
    \/ AsyncWake
    \/ FutSpawn
    \/ FutOpCompletes
    \/ FutSleepCompletes
    \/ FutPoll
    \/ FutPollRunning
    \/ FutPollSleeping

Spec == Init /\ [][Next]_vars

\* The drivers when every call of the operation returns, every future
\* completes, every sleep ends and the host polls a future that was woken.
FairSpec ==
    /\ Spec
    /\ WF_vars(SyncAttempt) /\ WF_vars(SyncWake)
    /\ WF_vars(AsyncCall) /\ WF_vars(AsyncOpReady) /\ WF_vars(AsyncWake)
    /\ WF_vars(FutSpawn) /\ WF_vars(FutOpCompletes) /\ WF_vars(FutSleepCompletes)
    /\ WF_vars(fut.woken /\ FutPoll)
    /\ WF_vars(FutPollRunning) /\ WF_vars(FutPollSleeping)

\* An Exponential strategy, constructed and then asked for MaxYield values.
InitExp ==
    /\ delays = <<>>
    /\ opType = "Result"
    /\ script = <<>>
    /\ sync = SyncInit
    /\ asyn = AsyncInit
    /\ fut = FutNew
    /\ exp \in {from_millis(b) : b \in Bases}
               \cup {from_millis_with_factor(b, f) : b \in Bases, f \in Factors}
    /\ yielded = <<>>
    /\ fib = Fibonacci_from_millis(0)
    /\ iter = NoIter
    /\ range = NoRange
    /\ jit = NoJitter
    /\ run1 = NoRun
    /\ parked = NoParked
    /\ dur = NoDuration

NextExp == ExponentialNext

SpecExp == InitExp /\ [][NextExp]_vars

\* the driver variables of a specification of a delay strategy alone
DriversIdle ==
    /\ delays = <<>>
    /\ opType = "Result"
    /\ script = <<>>
    /\ sync = SyncInit
    /\ asyn = AsyncInit
    /\ fut = FutNew
    /\ run1 = NoRun
    /\ parked = NoParked
    /\ dur = NoDuration

\* A Fibonacci strategy, constructed and then asked for MaxYield values.
InitFib ==
    /\ DriversIdle
    /\ exp = from_millis(0)
    /\ yielded = <<>>
    /\ fib \in {Fibonacci_from_millis(b) : b \in FibBases}
    /\ iter = NoIter
    /\ range = NoRange
    /\ jit = NoJitter

NextFib == FibonacciNext

SpecFib == InitFib /\ [][NextFib]_vars

\* A Range strategy: one constructor is called and, when it returned a
\* Range, MaxYield values are drawn from it.
InitRange ==
    /\ DriversIdle
    /\ exp = from_millis(0)
    /\ yielded = <<>>
    /\ fib = Fibonacci_from_millis(0)
    /\ iter = NoIter
    /\ range = NoRange
    /\ jit = NoJitter

NextRange == RangeConstruct \/ RangeNext

SpecRange == InitRange /\ [][NextRange]_vars

\* jitter, called once on a duration.
InitJitter ==
    /\ DriversIdle
    /\ exp = from_millis(0)
    /\ yielded = <<>>
    /\ fib = Fibonacci_from_millis(0)
    /\ iter = NoIter
    /\ range = NoRange
    /\ jit \in {[kind |-> "Duration", duration |-> d] : d \in JitterDurations}

NextJitter == Jitter

SpecJitter == InitJitter /\ [][NextJitter]_vars

\* retry_with_index, run twice on the same operation.
InitTwice ==
    /\ delays \in DelaySeqs
    /\ opType \in {"Result", "OperationResult"}
    /\ script = <<>>
    /\ sync = SyncInit
    /\ asyn = AsyncInit
    /\ fut = FutNew
    /\ run1 = NoRun
    /\ parked = NoParked
    /\ dur = NoDuration
    /\ exp = from_millis(0)
    /\ yielded = <<>>
    /\ fib = Fibonacci_from_millis(0)
    /\ iter = NoIter
    /\ range = NoRange
    /\ jit = NoJitter

NextTwice == SyncAttempt \/ SyncWake \/ Rerun

SpecTwice == InitTwice /\ [][NextTwice]_vars

\* The drivers, given a built-in strategy that was not truncated.
InitInf ==
    /\ delays = <<>>
    /\ opType \in {"Result", "OperationResult"}
    /\ script = <<>>
    /\ sync = SyncInit
    /\ asyn = AsyncInit
    /\ fut = FutNew
    /\ run1 = NoRun
    /\ parked = NoParked
    /\ dur = NoDuration
    /\ yielded = <<>>
    /\ range = NoRange
    /\ jit = NoJitter
    /\ \/ /\ iter \in {Fixed_from_millis(d) : d \in DelayValues} \cup {NoDelay}
          /\ exp = from_millis(0)
          /\ fib = Fibonacci_from_millis(0)
       \/ /\ iter = IterExponential
          /\ exp = from_millis(1)
          /\ fib = Fibonacci_from_millis(0)
       \/ /\ iter = IterFibonacci
          /\ exp = from_millis(0)
          /\ fib = Fibonacci_from_millis(1)

NextInf ==
    \/ IterNext
    \/ HasItem(sync.iterator) /\ SyncAttempt
    \/ SyncWake
    \/ AsyncCall
    \/ HasItem(asyn.durations) /\ AsyncOpReady
    \/ AsyncWake
    \/ FutSpawn
    \/ FutOpCompletes
    \/ FutSleepCompletes
    \/ FutPoll
    \/ HasItem(fut.delay) /\ FutPollRunning
    \/ FutPollSleeping

SpecInf == InitInf /\ [][NextInf]_vars

\* Two RetryFutures on one scheduler.  Each owns its delay sequence, its
\* operation (its own script) and its counters; fut, delays and script are
\* those of the instance the scheduler is running, parked holds the other.
\* Both have been constructed by retry().
MuxDelays == {<<>>, <<1>>, <<0, 1>>}

Instance(f, d, s) == [fut |-> f, delays |-> d, script |-> s]

Resume_SharedIterator(p, f) == [p.fut EXCEPT !.delay = f.delay]

\* the fields of the instance taken up again: RetryFuture holds its delay
\* iterator, operation, sleep, state and counters by value, and poll reaches
\* them through self only
Resume(p, f) == p.fut

\* the scheduler, between two polls, turns to the other instance
Switch ==
    /\ parked # NoParked
    /\ fut.pc # "poll"
    /\ parked' = Instance(fut, delays, script)
    /\ fut' = Resume(parked, fut)
    /\ delays' = parked.delays
    /\ script' = parked.script
    /\ UNCHANGED <<opType, sync, asyn, exp, yielded, fib, iter, range, jit,
                   run1, dur>>

InitMux ==
    /\ delays \in MuxDelays
    /\ opType \in {"Result", "OperationResult"}
    /\ script = <<>>
    /\ sync = SyncInit
    /\ asyn = AsyncInit
    /\ fut = spawn
    /\ \E d \in MuxDelays : parked = Instance(spawn, d, <<>>)
    /\ exp = from_millis(0)
    /\ yielded = <<>>
    /\ fib = Fibonacci_from_millis(0)
    /\ iter = NoIter
    /\ range = NoRange
    /\ jit = NoJitter
    /\ run1 = NoRun
    /\ dur = NoDuration

NextMux ==
    \/ Switch
    \/ FutOpCompletes
    \/ FutSleepCompletes
    \/ FutPoll
    \/ FutPollRunning
    \/ FutPollSleeping

SpecMux == InitMux /\ [][NextMux]_vars

-----------------------------------------------------------------------------
(* src/delay/mod.rs: impl From<Duration> for Exponential, Fibonacci and    *)
(* Fixed.  A Duration is held as its number of whole milliseconds, from 0  *)
(* to DURATION_MAX; dur records the strategy built and its argument.       *)

\* duration.as_millis() as u64: as_millis returns a u128, and the cast to
\* u64 keeps its low 64 bits
as_millis_as_u64(duration) == duration % Pow2(U64Bits)

\* impl From<Duration> for Exponential
Exponential_from(duration) == from_millis(as_millis_as_u64(duration))

\* impl From<Duration> for Fibonacci
Fibonacci_from(duration) == Fibonacci_from_millis(as_millis_as_u64(duration))

\* impl From<Duration> for Fixed: Self { duration: delay.into() }
Fixed_from(delay) == [kind |-> "Fixed", duration |-> delay, ended |-> FALSE]

\* the Durations a strategy is built from
Durations ==
    {0, 1, 10, 1000, U64_MAX - 1, U64_MAX, U64_MAX + 1, U64_MAX + 385,
     2 * U64_MAX + 7, DURATION_MAX}

FromDuration ==
    /\ dur = NoDuration
    /\ \E d \in Durations, k \in {"Exponential", "Fibonacci", "Fixed"} :
          /\ dur' = [kind |-> k, duration |-> d]
          /\ exp' = IF k = "Exponential" THEN Exponential_from(d) ELSE exp
          /\ fib' = IF k = "Fibonacci" THEN Fibonacci_from(d) ELSE fib
          /\ iter' = IF k = "Fixed" THEN Fixed_from(d) ELSE iter
    /\ UNCHANGED <<delays, opType, script, sync, asyn, fut, yielded, range,
                   jit, run1, parked>>

\* one call of next() on the Fixed built
FixedNext ==
    /\ iter.kind = "Fixed"
    /\ Len(yielded) < MaxYield
    /\ yielded' = Append(yielded, Fixed_next(iter).val)
    /\ UNCHANGED <<delays, opType, script, sync, asyn, fut, exp, fib, iter,
                   range, jit, run1, parked, dur>>

InitFrom ==
    /\ DriversIdle
    /\ exp = from_millis(0)
    /\ yielded = <<>>
    /\ fib = Fibonacci_from_millis(0)
    /\ iter = NoIter
    /\ range = NoRange
    /\ jit = NoJitter

NextFrom ==
    \/ FromDuration
    \/ dur.kind = "Exponential" /\ ExponentialNext
    \/ dur.kind = "Fibonacci" /\ FibonacciNext
    \/ FixedNext

SpecFrom == InitFrom /\ [][NextFrom]_vars

-----------------------------------------------------------------------------
(* RetryFuture given a strategy that never ends and only yields zero       *)
(* (NoDelay, Fixed::from_millis(0)), run without end.  The strategy is the *)
(* same after every next(): delays holds the one item its next call        *)
(* returns.  The values the operation returns are not recorded.  The       *)
(* counters, which have no effect on what poll does, are followed up to    *)
(* MaxSpin.                                                                *)

Least(a, b) == IF a < b THEN a ELSE b

\* the RetryFuture with the item just taken forgotten and its counters
\* followed no further than MaxSpin
Fold(f) ==
    [f EXCEPT !.delay = 0,
              !.tries = Least(@, MaxSpin + 1),
              !.calls = Least(@, MaxSpin + 1),
              !.nexts = Least(@, MaxSpin),
              !.sleeps = IF Len(@) > MaxSpin THEN Tail(@) ELSE @]

\* poll, case RetryState::Running, as FutPollRunning
SpinPollRunning ==
    /\ fut.pc = "poll"
    /\ fut.state = "Running"
    /\ IF ~fut.ready
       THEN fut' = Pending(fut)
       ELSE \E r \in ReturnValues(opType) :
               fut' = Fold(PollRunningReady(fut, TryOutput(r)))
    /\ UNCHANGED <<delays, opType, script, sync, asyn, exp, yielded, fib,
                   iter, range, jit, run1, parked, dur>>

\* poll, case RetryState::Sleeping, as FutPollSleeping
SpinPollSleeping ==
    /\ fut.pc = "poll"
    /\ fut.state = "Sleeping"
    /\ fut' = IF ~fut.ready THEN Pending(fut) ELSE Fold(attempt(fut))
    /\ UNCHANGED <<delays, opType, script, sync, asyn, exp, yielded, fib,
                   iter, range, jit, run1, parked, dur>>

InitSpin ==
    /\ iter \in {NoDelay, Fixed_from_millis(0)}
    /\ delays = <<IterItem.val>>
    /\ opType \in {"Result", "OperationResult"}
    /\ script = <<>>
    /\ sync = SyncInit
    /\ asyn = AsyncInit
    /\ fut = spawn
    /\ exp = from_millis(0)
    /\ yielded = <<>>
    /\ fib = Fibonacci_from_millis(0)
    /\ range = NoRange
    /\ jit = NoJitter
    /\ run1 = NoRun
    /\ parked = NoParked
    /\ dur = NoDuration

NextSpin ==
    \/ FutOpCompletes
    \/ FutSleepCompletes
    \/ FutPoll
    \/ SpinPollRunning
    \/ SpinPollSleeping

SpecSpin == InitSpin /\ [][NextSpin]_vars

\* every future completes, and a woken task is polled again
FairSpin ==
    /\ SpecSpin
    /\ WF_vars(FutOpCompletes) /\ WF_vars(FutSleepCompletes)
    /\ WF_vars(fut.woken /\ FutPoll)
    /\ WF_vars(SpinPollRunning) /\ WF_vars(SpinPollSleeping)

\* The drivers, given delays near the ends of Duration's range: one
\* millisecond, the value a saturated Exponential or Fibonacci yields
\* (Duration::from_millis(u64::MAX)) and Duration::MAX.
BigDelayValues == {1, U64_MAX, DURATION_MAX}

BigDelaySeqs == UNION {[1 .. n -> BigDelayValues] : n \in 0 .. MaxBig}

InitBig ==
    /\ delays \in BigDelaySeqs
    /\ opType \in {"Result", "OperationResult"}
    /\ script = <<>>
    /\ sync = SyncInit
    /\ asyn = AsyncInit
    /\ fut = FutNew
    /\ exp = from_millis(0)
    /\ yielded = <<>>
    /\ fib = Fibonacci_from_millis(0)
    /\ iter = NoIter
    /\ range = NoRange
    /\ jit = NoJitter
    /\ run1 = NoRun
    /\ parked = NoParked
    /\ dur = NoDuration

SpecBig == InitBig /\ [][Next]_vars

-----------------------------------------------------------------------------
(* Properties of the drivers *)

\* the converted value of the operation's j-th call
Outcome(j) == Into(script[j])

\* the first k calls of the operation all fail retryably
AllRetry(k) == \A i \in 1 .. k : Outcome(i).kind = "Retry"

\* the operation succeeds on its k-th call after k - 1 retryable failures
SucceedsAt(k) == k \in 1 .. Len(script) /\ Outcome(k).kind = "Ok" /\ AllRetry(k - 1)

Prefix(s, n) == SubSeq(s, 1, n)

\* C1: with a delay sequence of N values and an operation whose every call
\* is a retryable failure, each driver returns an error with tries = N + 1
\* and total_delay = the sum of the N delays, after exactly N + 1 calls of
\* the operation.
C1_AlwaysFailing ==
    /\ (sync.pc = "done" /\ AllRetry(Len(sync.calls))) =>
          /\ sync.result.kind = "Err"
          /\ sync.result.tries = Len(delays) + 1
          /\ sync.result.total_delay = SumSeq(delays)
          /\ Len(sync.calls) = Len(delays) + 1
    /\ (asyn.pc = "done" /\ AllRetry(asyn.calls)) =>
          /\ asyn.result.kind = "Err"
          /\ asyn.result.tries = Len(delays) + 1
          /\ asyn.result.total_delay = SumSeq(delays)
          /\ asyn.calls = Len(delays) + 1
    /\ (fut.pc = "done" /\ AllRetry(fut.calls)) =>
          /\ fut.result.kind = "Err"
          /\ fut.result.tries = Len(delays) + 1
          /\ fut.result.total_delay = SumSeq(delays)
          /\ fut.calls = Len(delays) + 1

C1_Witness ==
    /\ sync.pc = "done" /\ asyn.pc = "done" /\ fut.pc = "done"
    /\ AllRetry(fut.calls)
    /\ Len(delays) >= 2
    /\ sync.result.total_delay >= 2

\* C2: when the operation fails retryably on calls 1 .. k-1 and succeeds on
\* call k, each driver returns Ok with the value of the k-th call, has called
\* the operation exactly k times and has taken exactly k - 1 delays from the
\* sequence, asking it for no value after the success.
C2_SucceedsOnKth ==
    \A k \in 1 .. Len(script) :
        SucceedsAt(k) =>
            /\ sync.pc = "done" =>
                  /\ sync.result = ResOk(script[k].val)
                  /\ Len(sync.calls) = k
                  /\ sync.iterator = k - 1 /\ sync.nexts = k - 1
            /\ asyn.pc = "done" =>
                  /\ asyn.result = ResOk(script[k].val)
                  /\ asyn.calls = k
                  /\ asyn.durations = k - 1 /\ asyn.nexts = k - 1
            /\ fut.pc = "done" =>
                  /\ fut.result = ResOk(script[k].val)
                  /\ fut.calls = k
                  /\ fut.delay = k - 1 /\ fut.nexts = k - 1

C2_Witness ==
    /\ sync.pc = "done" /\ asyn.pc = "done" /\ fut.pc = "done"
    /\ SucceedsAt(3)
    /\ Len(delays) = 3

\* C3: when call j of the operation returns a fatal failure, the synchronous
\* driver returns an error with that error, tries = j and total_delay = the
\* sum of the j - 1 delays already slept; it takes no further delay, starts
\* no further sleep and makes no further call.
C3_FatalStopsSync ==
    LET j == Len(sync.calls)
    IN  (sync.pc = "done" /\ j >= 1 /\ Outcome(j).kind = "Err") =>
            /\ sync.result = ResErr(script[j].val, SumSeq(Prefix(delays, j - 1)), j)
            /\ sync.iterator = j - 1 /\ sync.nexts = j - 1
            /\ Len(sync.sleeps) = j - 1

C3_Witness ==
    /\ sync.pc = "done"
    /\ Len(sync.calls) = 2
    /\ Outcome(2).kind = "Err"
    /\ Len(delays) = 3
    /\ sync.result.total_delay = 1

C3_WitnessFirst ==
    /\ sync.pc = "done"
    /\ Len(sync.calls) = 1
    /\ Outcome(1).kind = "Err"
    /\ Len(delays) = 3

\* the sleeps that have ended: all those started, but the one in flight
Front(s) == SubSeq(s, 1, Len(s) - 1)
SyncSlept == IF sync.pc = "sleep" THEN Front(sync.sleeps) ELSE sync.sleeps
AsyncSlept == IF asyn.pc = "sleep" THEN Front(asyn.sleeps) ELSE asyn.sleeps

\* C4: an error returned by a driver has tries >= 1, tries = the number of
\* calls of the operation, and total_delay = the sum of the delays slept;
\* in retry_with_index and in the async fn retry every delay taken from the
\* sequence is slept, and is added to total_delay only once its sleep ended.
C4_ErrorBookkeeping ==
    /\ sync.result.kind = "Err" =>
          /\ sync.result.tries >= 1
          /\ sync.result.tries = Len(sync.calls)
          /\ sync.result.total_delay = SumSeq(sync.sleeps)
    /\ asyn.result.kind = "Err" =>
          /\ asyn.result.tries >= 1
          /\ asyn.result.tries = asyn.calls
          /\ asyn.result.total_delay = SumSeq(asyn.sleeps)
    /\ fut.result.kind = "Err" =>
          /\ fut.result.tries >= 1
          /\ fut.result.tries = fut.calls
          /\ fut.result.total_delay = SumSeq(fut.sleeps)
    /\ sync.sleeps = Prefix(delays, sync.iterator)
    /\ sync.total_delay = SumSeq(SyncSlept)
    /\ asyn.sleeps = Prefix(delays, asyn.durations)
    /\ asyn.total_delay = SumSeq(AsyncSlept)

C4_Witness ==
    /\ sync.result.kind = "Err" /\ asyn.result.kind = "Err" /\ fut.result.kind = "Err"
    /\ sync.result.tries = 3
    /\ sync.result.total_delay = 2

\* an error returned with the empty delay sequence
C4_WitnessEmpty ==
    /\ delays = <<>>
    /\ sync.result.kind = "Err" /\ asyn.result.kind = "Err"
    /\ sync.result.tries = 1

\* C5: the error inside a returned retry error is the error of the last call
\* of the operation, and a returned success value is the value of the first
\* successful call.
C5_LastErrorFirstSuccess ==
    /\ sync.result.kind = "Err" => sync.result.error = script[Len(sync.calls)].val
    /\ asyn.result.kind = "Err" => asyn.result.error = script[asyn.calls].val
    /\ fut.result.kind = "Err" => fut.result.error = script[fut.calls].val
    /\ sync.result.kind = "Ok" =>
          /\ sync.result.value = script[Len(sync.calls)].val
          /\ \A i \in 1 .. Len(sync.calls) - 1 : Outcome(i).kind # "Ok"
    /\ asyn.result.kind = "Ok" =>
          /\ asyn.result.value = script[asyn.calls].val
          /\ \A i \in 1 .. asyn.calls - 1 : Outcome(i).kind # "Ok"
    /\ fut.result.kind = "Ok" =>
          /\ fut.result.value = script[fut.calls].val
          /\ \A i \in 1 .. fut.calls - 1 : Outcome(i).kind # "Ok"

\* an error returned after three calls whose errors differ
C5_Witness ==
    /\ sync.result.kind = "Err" /\ asyn.result.kind = "Err" /\ fut.result.kind = "Err"
    /\ Len(sync.calls) = 3
    /\ script[1].val # script[3].val
    /\ script[2].val # script[3].val

\* C6: the j-th call of the operation made by retry_with_index receives j,
\* and the tries field of a returned error is the argument of the last call.
C6_IndexPassed ==
    /\ \A j \in 1 .. Len(sync.calls) : sync.calls[j] = j
    /\ sync.result.kind = "Err" => sync.result.tries = sync.calls[Len(sync.calls)]

C6_Witness ==
    /\ sync.result.kind = "Err"
    /\ sync.calls = <<1, 2, 3>>

\* C7: a plain Result converts to Ok with the same value or to Retry with the
\* same error, never to the fatal variant; hence, for an operation returning
\* a plain Result, retry_with_index and the async fn retry return an error
\* only with the delay sequence exhausted, tries = its length + 1.
C7_PlainResultRetried ==
    /\ \A j \in 1 .. Len(script) :
          script[j].ty = "Result" =>
              Into(script[j]) =
                  [ty |-> "OperationResult",
                   kind |-> IF script[j].kind = "Ok" THEN "Ok" ELSE "Retry",
                   val |-> script[j].val]
    /\ (opType = "Result" /\ sync.result.kind = "Err") =>
          /\ sync.result.tries = Len(delays) + 1
          /\ sync.iterator = Len(delays)
    /\ (opType = "Result" /\ asyn.result.kind = "Err") =>
          /\ asyn.result.tries = Len(delays) + 1
          /\ asyn.durations = Len(delays)

C7_Witness ==
    /\ opType = "Result"
    /\ sync.result.kind = "Err" /\ asyn.result.kind = "Err"
    /\ Len(delays) = 2
    /\ \E j \in 1 .. Len(script) : script[j].kind = "Err"

AllDone == sync.pc = "done" /\ asyn.pc = "done" /\ fut.pc = "done"

C8_AgreeWithoutFatal ==
    AllDone =>
        /\ asyn.result = sync.result
        /\ asyn.calls = Len(sync.calls)
        /\ asyn.sleeps = sync.sleeps
        /\ (\A j \in 1 .. Len(sync.calls) : Outcome(j).kind # "Err") =>
              /\ fut.result = sync.result
              /\ fut.calls = Len(sync.calls)
              /\ fut.sleeps = sync.sleeps

\* C9: with a delay sequence of N values, when every call of the operation
\* completes and every sleep ends, each driver eventually returns a result,
\* after at most N + 1 calls of the operation and at most N sleeps.
C9_Terminates ==
    /\ <>AllDone
    /\ [](/\ Len(sync.calls) <= Len(delays) + 1 /\ Len(sync.sleeps) <= Len(delays)
          /\ asyn.calls <= Len(delays) + 1 /\ Len(asyn.sleeps) <= Len(delays)
          /\ fut.calls <= Len(delays) + 1 /\ Len(fut.sleeps) <= Len(delays))

\* all three drivers have returned, the last one after using every delay
C9_Witness ==
    /\ AllDone
    /\ Len(delays) = 3
    /\ fut.calls = 4 /\ Len(fut.sleeps) = 3

-----------------------------------------------------------------------------
(* Properties of the delay strategies *)

\* the float worth m units of 1 / FScale has at most F64Mant significant
\* bits: an f64 holds it exactly
Representable(m) ==
    \E k \in 0 .. (U64Bits + FracBits + 2) :
        m % Pow2(k) = 0 /\ m \div Pow2(k) < Pow2(F64Mant)

\* C10 as stated, for the factors >= 0: Exponential yields base first, and
\* each later value is the previous one multiplied by factor, until the
\* maximum is reached; from_millis(base) is from_millis_with_factor(base, 2.0).
C10_ExponentialExact ==
    /\ Len(yielded) >= 1 => yielded[1] = exp.base
    /\ \A i \in 1 .. Len(yielded) - 1 :
          (exp.factor >= 0 /\ yielded[i] * exp.factor <= U64_MAX * FScale) =>
              yielded[i + 1] * FScale = yielded[i] * exp.factor
    /\ exp.ctor = "from_millis" => exp.factor = 2 * FScale

\* C10 amended: Exponential yields base first; for a factor >= 0, when the
\* previous value and its product with factor are exactly representable as
\* f64 and the product is at most the maximum, the next value is that
\* product truncated to a whole number of milliseconds; from_millis(base) is
\* from_millis_with_factor(base, 2.0); base 1000 with factor 2 yields 1000,
\* 2000, 4000, 8000, 16000, 32000.
C10_ExponentialTruncates ==
    /\ Len(yielded) >= 1 => yielded[1] = exp.base
    /\ \A i \in 1 .. Len(yielded) - 1 :
          (/\ exp.factor >= 0
           /\ Representable(yielded[i] * FScale)
           /\ Representable(yielded[i] * exp.factor)
           /\ yielded[i] * exp.factor <= U64_MAX * FScale) =>
              yielded[i + 1] = (yielded[i] * exp.factor) \div FScale
    /\ exp.ctor = "from_millis" =>
          /\ exp.factor = 2 * FScale
          /\ exp = [from_millis_with_factor(exp.base, 2 * FScale)
                       EXCEPT !.ctor = "from_millis", !.current = exp.current]
    /\ (exp.base = 1000 /\ exp.factor = 2 * FScale /\ Len(yielded) = 6) =>
          yielded = <<1000, 2000, 4000, 8000, 16000, 32000>>

\* base 3 with factor 1.5 has yielded 3, 4, 6, 9, 13, 19: 4.5 became 4,
\* 13.5 became 13 and 19.5 became 19
C10_Witness ==
    /\ exp.base = 3
    /\ exp.factor = (3 * FScale) \div 2
    /\ yielded = <<3, 4, 6, 9, 13, 19>>

\* C11 as stated: when the current value multiplied by factor exceeds the
\* maximum, the next value yielded and every later one is the maximum; no
\* value is outside the u64 range; started at the maximum with a factor >= 1
\* the first two values are the maximum.
C11_ExponentialClampsExact ==
    /\ \A i \in 1 .. Len(yielded) : yielded[i] \in 0 .. U64_MAX
    /\ \A i \in 1 .. Len(yielded) - 1 :
          yielded[i] * exp.factor > U64_MAX * FScale =>
              \A j \in (i + 1) .. Len(yielded) : yielded[j] = U64_MAX
    /\ (exp.base = U64_MAX /\ exp.factor >= FScale /\ Len(yielded) >= 2) =>
          yielded[1] = U64_MAX /\ yielded[2] = U64_MAX

\* C11 amended: no value is outside the u64 range; when the current value
\* multiplied by factor exceeds the maximum, the next value is within one
\* f64 step below the maximum (it did not wrap) and every value after it is
\* the maximum; when moreover the current value is exactly representable as
\* f64, the next value is the maximum itself; started at the maximum with a
\* factor >= 1 the first two values are the maximum.
C11_ExponentialClamps ==
    /\ \A i \in 1 .. Len(yielded) : yielded[i] \in 0 .. U64_MAX
    /\ \A i \in 1 .. Len(yielded) - 1 :
          yielded[i] * exp.factor > U64_MAX * FScale =>
              /\ yielded[i + 1] >= U64_MAX + 1 - Pow2(U64Bits - F64Mant)
              /\ Representable(yielded[i] * FScale) => yielded[i + 1] = U64_MAX
              /\ \A j \in (i + 2) .. Len(yielded) : yielded[j] = U64_MAX
    /\ (exp.base = U64_MAX /\ exp.factor >= FScale /\ Len(yielded) >= 2) =>
          yielded[1] = U64_MAX /\ yielded[2] = U64_MAX

\* base 1000 with factor 3 has reached the maximum from 27008, and yielded
\* it again
C11_Witness ==
    /\ exp.base = 1000
    /\ exp.factor = 3 * FScale
    /\ Len(yielded) = 6
    /\ yielded[4] < U64_MAX \div 2
    /\ yielded[5] = U64_MAX /\ yielded[6] = U64_MAX

\* C12: Fibonacci yields base, base, and then each value is the sum of the
\* two values yielded before it whenever that sum is representable; base 10
\* yields 10, 10, 20, 30, 50, 80.
C12_FibonacciSums ==
    /\ Len(yielded) >= 1 => yielded[1] = fib.base
    /\ Len(yielded) >= 2 => yielded[2] = fib.base
    /\ \A i \in 3 .. Len(yielded) :
          yielded[i - 2] + yielded[i - 1] <= U64_MAX =>
              yielded[i] = yielded[i - 2] + yielded[i - 1]
    /\ (fib.base = 10 /\ Len(yielded) = 6) =>
          yielded = <<10, 10, 20, 30, 50, 80>>

C12_Witness ==
    /\ fib.base = 7
    /\ yielded = <<7, 7, 14, 21, 35, 56>>

\* C13: Fibonacci yields only representable values and never a smaller one
\* than before; when the sum of the two values yielded last is not
\* representable the next value is the maximum; once the maximum has been
\* yielded every later value is the maximum; started at the maximum, the
\* first two values are the maximum.
C13_FibonacciSaturates ==
    /\ \A i \in 1 .. Len(yielded) : yielded[i] \in 0 .. U64_MAX
    /\ \A i \in 1 .. Len(yielded) - 1 : yielded[i] <= yielded[i + 1]
    /\ \A i \in 3 .. Len(yielded) :
          yielded[i - 2] + yielded[i - 1] > U64_MAX => yielded[i] = U64_MAX
    /\ \A i \in 1 .. Len(yielded) - 1 :
          yielded[i] = U64_MAX => yielded[i + 1] = U64_MAX
    /\ (fib.base = U64_MAX /\ Len(yielded) >= 2) =>
          yielded[1] = U64_MAX /\ yielded[2] = U64_MAX

\* a base of half the range has saturated at the third value and yielded the
\* maximum ever since
C13_Witness ==
    /\ fib.base = (U64_MAX \div 2) + 1
    /\ Len(yielded) = MaxYield
    /\ \E i \in 3 .. Len(yielded) - 1 :
          /\ yielded[i - 1] < U64_MAX
          /\ yielded[i - 2] + yielded[i - 1] > U64_MAX
          /\ yielded[i] = U64_MAX /\ yielded[i + 1] = U64_MAX

-----------------------------------------------------------------------------
(* Properties of the drivers on a strategy that never ends *)

\* the driver has returned a success, or an error on a fatal failure
SuccessOrFatal(result, calls) ==
    result.kind = "Ok" \/ (result.kind = "Err" /\ Outcome(calls).kind = "Err")

\* C14: Fixed(d) yields d on every call and NoDelay yields zero on every
\* call; next() of a built-in strategy never returns None; a driver given
\* such a strategy returns only a success or the error of a fatal failure,
\* and has not returned while every call so far failed retryably.
C14_NeverEnds ==
    /\ ~iter.ended
    /\ iter.kind = "Fixed" => \A i \in 1 .. Len(yielded) : yielded[i] = iter.duration
    /\ iter.kind = "NoDelay" => \A i \in 1 .. Len(yielded) : yielded[i] = 0
    /\ sync.pc = "done" => SuccessOrFatal(sync.result, Len(sync.calls))
    /\ asyn.pc = "done" => SuccessOrFatal(asyn.result, asyn.calls)
    /\ fut.pc = "done" => SuccessOrFatal(fut.result, fut.calls)
    /\ AllRetry(Len(sync.calls)) => sync.pc \notin Finished

\* on Fixed(1) the operation has failed retryably MaxPull times, each
\* failure was followed by a sleep of 1 ms, and the driver is about to call
\* the operation again
C14_Witness ==
    /\ iter = Fixed_from_millis(1)
    /\ Len(sync.calls) = MaxPull
    /\ AllRetry(MaxPull)
    /\ sync.sleeps = [i \in 1 .. MaxPull |-> 1]
    /\ sync.pc = "loop"

-----------------------------------------------------------------------------
(* Properties of Range and jitter *)

Exclusive == {"from_millis_exclusive", "try_from_millis_exclusive"}
Inclusive == {"from_millis_inclusive", "try_from_millis_inclusive"}
Fallible == {"try_from_millis_exclusive", "try_from_millis_inclusive"}

C15_WitnessPanic ==
    /\ range # NoRange
    /\ range.ctor = "from_millis_inclusive"
    /\ range.minimum = 2 /\ range.maximum = 1
    /\ range.outcome = "panic"

\* C16: from_millis_inclusive panics, and try_from_millis_inclusive returns
\* an error, whenever minimum >= maximum, minimum = maximum included.
C16_InclusiveRejectsEqual ==
    (range # NoRange /\ range.ctor \in Inclusive /\ range.minimum >= range.maximum) =>
        range.outcome = (IF range.ctor \in Fallible THEN "Err" ELSE "panic")

\* the least whole number not below m / JScale
ExactCeil(m) == (m + JScale - 1) \div JScale

\* jitter has been called
Jittered == jit.kind = "Jitter"

\* C17 as stated: jitter(d) has seconds ceil(d.seconds * f) and sub-second
\* nanoseconds ceil(d.subsec_nanos * f); jitter of the zero duration is
\* zero, and jitter(d) is at most d in each component, the nanoseconds
\* staying below one second.
C17_JitterExactCeil ==
    Jittered =>
        /\ jit.result.secs = ExactCeil(jit.duration.secs * jit.f)
        /\ jit.result.nanos = ExactCeil(jit.duration.nanos * jit.f)
        /\ jit.duration = [secs |-> 0, nanos |-> 0] => jit.result = jit.duration
        /\ 0 <= jit.result.secs /\ jit.result.secs <= jit.duration.secs
        /\ 0 <= jit.result.nanos /\ jit.result.nanos <= jit.duration.nanos
        /\ jit.result.nanos < NANOS_PER_SEC

\* C17 amended: each component of jitter(d) is the ceiling of the f64
\* product of the component of d and f: it is ceil(component * f) when that
\* product is exactly representable as f64, and that or one less when the
\* component is below 2^F64Mant; jitter of the zero duration is zero, and
\* jitter(d) is at most d in each component, the nanoseconds staying below
\* one second.
C17_JitterCeil ==
    Jittered =>
        /\ Representable(jit.duration.secs * jit.f) =>
              jit.result.secs = ExactCeil(jit.duration.secs * jit.f)
        /\ Representable(jit.duration.nanos * jit.f) =>
              jit.result.nanos = ExactCeil(jit.duration.nanos * jit.f)
        /\ jit.duration.secs < Pow2(F64Mant) =>
              jit.result.secs \in {ExactCeil(jit.duration.secs * jit.f) - 1,
                                   ExactCeil(jit.duration.secs * jit.f)}
        /\ jit.result.nanos \in {ExactCeil(jit.duration.nanos * jit.f) - 1,
                                 ExactCeil(jit.duration.nanos * jit.f)}
        /\ jit.duration = [secs |-> 0, nanos |-> 0] => jit.result = jit.duration
        /\ 0 <= jit.result.secs /\ jit.result.secs <= jit.duration.secs
        /\ 0 <= jit.result.nanos /\ jit.result.nanos <= jit.duration.nanos
        /\ jit.result.nanos < NANOS_PER_SEC

\* jitter of 5 s and 2 ns with f = 1/4 is 2 s and 1 ns
C17_Witness ==
    /\ Jittered
    /\ jit.duration = [secs |-> 5, nanos |-> 2]
    /\ jit.f * 4 = JScale
    /\ jit.result = [secs |-> 2, nanos |-> 1]

\* C18: for a duration d > 0 and any fraction the random source returns,
\* jitter(d) is greater than the zero duration.
C18_JitterPositive ==
    (Jittered /\ (jit.duration.secs > 0 \/ jit.duration.nanos > 0)) =>
        (jit.result.secs > 0 \/ jit.result.nanos > 0)

-----------------------------------------------------------------------------
(* Properties of two runs *)

\* both runs of retry_with_index have returned
BothRan == run1 # NoRun /\ sync.pc \in Finished

C19_WitnessSame ==
    /\ BothRan
    /\ delays = run1.delays
    /\ Len(delays) = 3
    /\ Len(sync.calls) = 3
    /\ sync.result.kind = "Ok"

-----------------------------------------------------------------------------
(* Properties of the asynchronous drivers *)

\* the async fn retry has matched the value of its last call
AsyncMatched == asyn.calls >= 1 /\ asyn.pc # "op"

\* the RetryFuture has taken the output of its last call from the
\* operation's future
FutMatched == fut.pc = "done" \/ fut.state = "Sleeping"

C20_AsyncFnFatalStops ==
    (AsyncMatched /\ Outcome(asyn.calls).kind = "Err") =>
        /\ asyn.pc = "done"
        /\ asyn.result = ResErr(script[asyn.calls].val,
                                SumSeq(Prefix(delays, asyn.calls - 1)),
                                asyn.calls)
        /\ asyn.nexts = asyn.calls - 1
        /\ Len(asyn.sleeps) = asyn.calls - 1


-----------------------------------------------------------------------------
(* Ordering of attempts, pulls and sleeps *)

\* among the first n calls of the operation, those that failed retryably
RetryCount(n) == Cardinality({j \in 1 .. n : Outcome(j).kind = "Retry"})

\* among the first n calls of the operation, those that failed: RetryFuture
\* is given a TryFuture, whose every Err it passes to self.retry
FailCount(n) == Cardinality({j \in 1 .. n : TryOutput(script[j]).kind = "Err"})

\* the number of calls of the operation whose outcome the driver has matched
AsyncMatchedCalls == IF asyn.pc = "op" THEN asyn.calls - 1 ELSE asyn.calls
FutMatchedCalls ==
    IF fut.pc \in {"idle", "poll"} /\ fut.state = "Running"
    THEN fut.calls - 1
    ELSE fut.calls

\* the sleeps requested so far are the values pulled so far, in order, and
\* there is one sleep between two consecutive attempts and none before the
\* first or after the last
SyncAlternates ==
    /\ sync.pc # "panicked" => sync.sleeps = Prefix(delays, sync.iterator)
    /\ sync.pc \in {"loop", "sleep"} => Len(sync.sleeps) = Len(sync.calls)
    /\ sync.pc = "done" => Len(sync.sleeps) = Len(sync.calls) - 1
    /\ sync.nexts = RetryCount(Len(sync.calls))
AsyncAlternates ==
    /\ asyn.pc # "panicked" => asyn.sleeps = Prefix(delays, asyn.durations)
    /\ asyn.pc \in {"loop", "sleep"} => Len(asyn.sleeps) = asyn.calls
    /\ asyn.pc \in {"op", "done"} => Len(asyn.sleeps) = asyn.calls - 1
    /\ asyn.nexts = RetryCount(AsyncMatchedCalls)
FutAlternates ==
    /\ fut.pc # "panicked" => fut.sleeps = Prefix(delays, fut.delay)
    /\ fut.pc \in {"idle", "poll"} /\ fut.state = "Sleeping" =>
          Len(fut.sleeps) = fut.calls
    /\ (fut.pc \in {"idle", "poll"} /\ fut.state = "Running") \/ fut.pc = "done" =>
          Len(fut.sleeps) = fut.calls - 1
    /\ fut.nexts = FailCount(FutMatchedCalls)

\* a step that pulls a value from the delay sequence is the step that
\* matches a failed call, and a step that calls the operation starts from a
\* state with no sleep in flight
PullsAndCallsInOrder ==
    /\ sync'.nexts # sync.nexts =>
          /\ Len(sync'.calls) = Len(sync.calls) + 1
          /\ Into(script'[Len(sync'.calls)]).kind = "Retry"
    /\ Len(sync'.calls) > Len(sync.calls) => sync.pc = "loop"
    /\ asyn'.nexts # asyn.nexts =>
          /\ asyn.pc = "op"
          /\ Into(script'[asyn.calls]).kind = "Retry"
    /\ asyn'.calls > asyn.calls => asyn.pc = "loop"
    /\ fut'.nexts # fut.nexts =>
          /\ fut.state = "Running" /\ fut.ready
          /\ TryOutput(script'[fut.calls]).kind = "Err"
    /\ fut'.calls > fut.calls /\ fut.pc # "new" =>
          fut.state = "Sleeping" /\ fut.ready

\* C21: in every run of a driver attempts and sleeps alternate, starting and
\* ending with an attempt; the i-th sleep is requested with the i-th value
\* pulled from the delay sequence; a value is pulled only in the step that
\* matches a failure the driver retries (for RetryFuture: any Err of the
\* operation's future); no sleep comes before the first or after the last
\* attempt, and the operation is never called while a sleep is in flight.
C21_AttemptsAndSleepsAlternate ==
    /\ [](SyncAlternates /\ AsyncAlternates /\ FutAlternates)
    /\ [][PullsAndCallsInOrder]_vars

C21_Witness ==
    /\ sync.pc = "done" /\ asyn.pc = "done" /\ fut.pc = "done"
    /\ sync.sleeps = <<0, 1, 1>>
    /\ asyn.sleeps = <<0, 1, 1>>
    /\ fut.sleeps = <<0, 1, 1>>
    /\ fut.calls = 4


-----------------------------------------------------------------------------
(* RetryFuture: construction and state machine *)

\* the RetryFuture exists and no poll of it has begun or returned yet
NeverPolled == fut.pc = "idle" /\ fut.woken /\ ~fut.registered /\ fut.nexts = 0

\* the fields as spawn leaves them
FirstAttemptRunning(f) ==
    /\ f.state = "Running"
    /\ f.calls = 1
    /\ f.tries = 1
    /\ f.total_delay = 0
    /\ f.delay = 0 /\ f.nexts = 0
    /\ f.sleeps = <<>>

\* C22: constructing a RetryFuture calls the operation exactly once, before
\* any poll: the step that constructs it leaves it unpolled in state Running
\* with tries = 1, total_delay = 0 and no value pulled from the delay
\* sequence, and it stays so until a poll pulls the first value.
C22_FirstAttemptStarted ==
    /\ [](fut.pc = "new" => fut.calls = 0)
    /\ [](fut.pc # "new" /\ fut.nexts = 0 => FirstAttemptRunning(fut))
    /\ [][fut.pc = "new" /\ fut'.pc # "new" =>
             fut'.pc = "idle" /\ ~fut'.ready /\ FirstAttemptRunning(fut')]_vars

C22_Witness ==
    /\ NeverPolled
    /\ FirstAttemptRunning(fut)
    /\ Len(delays) = 3

\* the states of RetryFuture: the two variants of RetryState, and resolved
Running(f) == f.pc \in {"idle", "poll"} /\ f.state = "Running"
Sleeping(f) == f.pc \in {"idle", "poll"} /\ f.state = "Sleeping"
Terminal(f) == f.pc = "done"

\* the step is made by poll with the future held by the state completed
PollSawReady == fut.pc = "poll" /\ fut.ready /\ fut' # fut

\* the operation's future of the current attempt resolves to Err, resp. Ok
\* (read in the step that matches it)
AttemptFailed == TryOutput(script'[fut.calls]).kind = "Err"
AttemptSucceeded == TryOutput(script'[fut.calls]).kind = "Ok"

RunningToSleeping ==
    /\ Running(fut) /\ Sleeping(fut') =>
          /\ PollSawReady /\ AttemptFailed
          /\ fut.delay < Len(delays)
          /\ fut'.total_delay = fut.total_delay + delays[fut.delay + 1]
          /\ fut'.tries = fut.tries + 1
          /\ fut'.sleeps = Append(fut.sleeps, delays[fut.delay + 1])
          /\ fut'.nexts = fut.nexts + 1
          /\ fut'.calls = fut.calls
    /\ Running(fut) /\ PollSawReady /\ AttemptFailed /\ fut.delay < Len(delays) =>
          Sleeping(fut') \/ fut'.pc = "panicked"

SleepingToRunning ==
    /\ Sleeping(fut) /\ Running(fut') =>
          /\ PollSawReady
          /\ fut'.calls = fut.calls + 1
          /\ ~fut'.ready
          /\ fut'.tries = fut.tries /\ fut'.total_delay = fut.total_delay
          /\ fut'.nexts = fut.nexts /\ fut'.sleeps = fut.sleeps
    /\ Sleeping(fut) /\ PollSawReady => Running(fut')

RunningToTerminal ==
    /\ Running(fut) /\ Terminal(fut') =>
          /\ PollSawReady
          /\ AttemptSucceeded \/ (AttemptFailed /\ fut.delay = Len(delays))
          /\ fut'.calls = fut.calls /\ fut'.sleeps = fut.sleeps
    /\ Running(fut) /\ PollSawReady
          /\ (AttemptSucceeded \/ fut.delay = Len(delays)) => Terminal(fut')

NoOtherTransition ==
    /\ ~(Sleeping(fut) /\ Terminal(fut'))
    /\ Running(fut) /\ Running(fut') =>
          /\ fut'.calls = fut.calls /\ fut'.tries = fut.tries
          /\ fut'.nexts = fut.nexts
    /\ Sleeping(fut) /\ Sleeping(fut') =>
          /\ fut'.sleeps = fut.sleeps /\ fut'.calls = fut.calls
    /\ Terminal(fut) => fut' = fut

\* C23: RetryFuture goes from Running to Sleeping exactly when a poll finds
\* the operation's future resolved to a failure and the delay sequence
\* yields a value d, adding d to total_delay, 1 to tries and requesting a
\* sleep of d; from Sleeping to Running exactly when a poll finds the sleep
\* completed, starting exactly one fresh call of the operation; from Running
\* to resolved on success or on a failure with the delay sequence exhausted;
\* never from Sleeping to resolved, and never from Running to a new Running.
C23_Transitions ==
    [][RunningToSleeping /\ SleepingToRunning /\ RunningToTerminal
          /\ NoOtherTransition]_vars

C23_Witness ==
    /\ Terminal(fut)
    /\ fut.calls = 4 /\ fut.sleeps = <<1, 0, 1>>
    /\ fut.result.kind = "Ok"
    /\ TryOutput(script[2]).kind = "Err"

\* the step in which poll returns Poll::Pending
ReturnsPending == fut.pc = "poll" /\ fut'.pc = "idle"

\* C24: whenever RetryFuture::poll returns Pending, the future held by the
\* current state was polled in that same poll and reported Pending (it holds
\* the task's waker); poll never returns Pending in the step that changes the
\* state; hence, when every operation future and sleep completes and a woken
\* task is polled again, a RetryFuture with a finite delay sequence
\* eventually resolves.
C24_NoLostWakeUp ==
    /\ [](fut.pc = "idle" => fut.registered \/ NeverPolled)
    /\ [][ReturnsPending =>
             /\ ~fut.ready /\ fut'.registered
             /\ fut'.state = fut.state
             /\ fut'.calls = fut.calls /\ fut'.sleeps = fut.sleeps]_vars
    /\ <>(fut.pc = "done")

C24_Witness ==
    /\ fut.pc = "idle" /\ fut.registered /\ ~fut.woken
    /\ fut.state = "Sleeping" /\ ~fut.ready
    /\ fut.calls = 2

-----------------------------------------------------------------------------
(* Results *)

\* the n-th call failed fatally, or failed retryably when every value of the
\* delay sequence had been taken and one more was asked for
FatalOrExhausted(n, taken, nexts) ==
    \/ Outcome(n).kind = "Err"
    \/ /\ Outcome(n).kind = "Retry"
       /\ taken = Len(delays)
       /\ nexts = Len(delays) + 1

\* a driver has a result exactly when it has returned
OneResult ==
    /\ sync.result # NoResult <=> sync.pc = "done"
    /\ asyn.result # NoResult <=> asyn.pc = "done"
    /\ fut.result # NoResult <=> fut.pc = "done"

\* the delay sequence is asked at most once more than it has values, and the
\* call that finds it exhausted ends the run with an error
NotAskedAfterExhaustion ==
    /\ sync.nexts <= Len(delays) + 1
    /\ asyn.nexts <= Len(delays) + 1
    /\ fut.nexts <= Len(delays) + 1
    /\ sync.nexts = Len(delays) + 1 => sync.pc = "done" /\ sync.result.kind = "Err"
    /\ asyn.nexts = Len(delays) + 1 => asyn.pc = "done" /\ asyn.result.kind = "Err"
    /\ fut.nexts = Len(delays) + 1 => fut.pc = "done" /\ fut.result.kind = "Err"

ErrorsHaveCause ==
    /\ sync.result.kind = "Err" =>
          /\ FatalOrExhausted(Len(sync.calls), sync.iterator, sync.nexts)
          /\ sync.result.error = Outcome(Len(sync.calls)).val
    /\ asyn.result.kind = "Err" =>
          /\ FatalOrExhausted(asyn.calls, asyn.durations, asyn.nexts)
          /\ asyn.result.error = Outcome(asyn.calls).val
    /\ fut.result.kind = "Err" =>
          /\ FatalOrExhausted(fut.calls, fut.delay, fut.nexts)
          /\ fut.result.error = Outcome(fut.calls).val

\* C25: a run of a driver produces exactly one result; once it has returned
\* it calls the operation, requests a sleep and pulls a value no more; the
\* delay sequence is never asked again after it reported exhaustion; a
\* driver returns an error only for a fatal failure, which it passes on, or
\* for a retryable failure that found the delay sequence exhausted.
C25_OneResult ==
    /\ [](OneResult /\ NotAskedAfterExhaustion /\ ErrorsHaveCause)
    /\ [][/\ sync.pc = "done" => sync' = sync
          /\ asyn.pc = "done" => asyn' = asyn
          /\ fut.pc = "done" => fut' = fut]_vars

C25_Witness ==
    /\ sync.pc = "done" /\ asyn.pc = "done" /\ fut.pc = "done"
    /\ Len(delays) = 3
    /\ Outcome(1).kind = "Retry" /\ Outcome(2).kind = "Err"
    /\ sync.result.kind = "Err" /\ sync.nexts = 1
    /\ fut.result.kind = "Err" /\ fut.nexts = 4

-----------------------------------------------------------------------------
(* RetryFuture: the counters *)

\* the sleeps whose wait is over: all of them, but for the one held by the
\* state Sleeping
SleepsCompleted ==
    IF Sleeping(fut) THEN Front(fut.sleeps) ELSE fut.sleeps

\* C26 as stated: in every reachable state of RetryFuture tries is the number
\* of calls of the operation made so far and total_delay is the sum of the
\* delays whose wait has completed, a sleep in flight not counted.
C26_CountersTrackCompleted ==
    fut.pc # "new" =>
        /\ fut.tries = fut.calls
        /\ fut.total_delay = SumSeq(SleepsCompleted)

\* C26, amended: tries and total_delay are advanced when the sleep is
\* requested.  In every reachable state tries is one more than the number
\* of sleeps requested and total_delay is the sum of the sleeps requested,
\* the one in flight included; tries is the number of calls of the operation
\* while the state is Running and after the future has resolved, and one
\* more than that while the state is Sleeping.
C26_CountersTrackRequested ==
    fut.pc # "new" =>
        /\ fut.tries = Len(fut.sleeps) + 1
        /\ fut.total_delay = SumSeq(fut.sleeps)
        /\ fut.state = "Running" =>
              /\ fut.tries = fut.calls
              /\ fut.total_delay = SumSeq(SleepsCompleted)
        /\ fut.state = "Sleeping" =>
              /\ fut.tries = fut.calls + 1
              /\ fut.total_delay =
                    SumSeq(SleepsCompleted) + fut.sleeps[Len(fut.sleeps)]

C26_Witness ==
    /\ Sleeping(fut) /\ ~fut.ready
    /\ fut.sleeps = <<1, 1>>
    /\ fut.calls = 2 /\ fut.tries = 3
    /\ fut.total_delay = 2

-----------------------------------------------------------------------------
(* Several RetryFutures on one scheduler *)

\* a RetryFuture run alone with delay sequence d and an operation whose j-th
\* call resolves to s[j]: the number of the call that ends the run, counted
\* from call n
RECURSIVE AloneCalls(_, _, _)
AloneCalls(d, s, n) ==
    IF n > Len(d) \/ n > Len(s) \/ TryOutput(s[n]).kind = "Ok"
    THEN n
    ELSE AloneCalls(d, s, n + 1)

AloneResult(d, s) ==
    LET n == AloneCalls(d, s, 1)
    IN  IF n > Len(s) THEN NoResult
        ELSE IF TryOutput(s[n]).kind = "Ok" THEN ResOk(s[n].val)
        ELSE ResErr(s[n].val, SumSeq(d), Len(d) + 1)

\* instance f, given d and s, has done what it does alone
MatchesAlone(f, d, s) ==
    /\ f.sleeps = Prefix(d, Len(f.sleeps))
    /\ f.calls <= AloneCalls(d, s, 1)
    /\ f.pc = "done" =>
          /\ f.result = AloneResult(d, s)
          /\ f.calls = AloneCalls(d, s, 1)
          /\ f.sleeps = Prefix(d, f.calls - 1)

\* the reference above is what the single RetryFuture of Spec does
RunsAloneAsReference == MatchesAlone(fut, delays, script)

\* the instance not being run changes only by being exchanged, as it is,
\* with the running one
ParkedUntouched ==
    parked' # parked =>
        /\ parked' = Instance(fut, delays, script)
        /\ fut' = parked.fut
        /\ delays' = parked.delays
        /\ script' = parked.script

-----------------------------------------------------------------------------
(* Backoff *)

\* every value yielded is at least the one before it, and from the n-th on
\* a value below the maximum is followed by a greater one.  The next value of
\* either strategy is a function of its state alone: an Exponential that
\* yields the same value twice yields it forever.
Grows(n) ==
    \A i \in 1 .. Len(yielded) - 1 :
        /\ yielded[i + 1] >= yielded[i]
        /\ i >= n /\ yielded[i] < U64_MAX => yielded[i + 1] > yielded[i]

\* C28: an Exponential with base >= 1 and any factor > 1 yields values each
\* at least the one before, and keeps growing until it reaches the maximum:
\* it never stays at a value below the maximum.
C28_BackoffGrows ==
    exp.base >= 1 /\ exp.factor > FScale => Grows(1)

\* the Fibonacci half of C28: with base >= 1 the values never decrease and,
\* after the first two (both the base), grow until the maximum
C28_FibonacciGrows ==
    fib.base >= 1 => Grows(2)

\* the Exponential half of C28 for the factors that cannot stall: when
\* current * (factor - 1) >= 1 from the start
C28_ExponentialGrowsFromTwo ==
    exp.base >= 1 /\ exp.factor >= 2 * FScale => Grows(1)

-----------------------------------------------------------------------------
(* Strategies built from a Duration *)

\* the first value of the Exponential or Fibonacci built is the Duration
FirstIsDuration ==
    dur.kind \in {"Exponential", "Fibonacci"} /\ yielded # <<>> =>
        yielded[1] = dur.duration

\* the Fixed built yields the Duration on every call, and is the Fixed that
\* from_millis builds from the Duration's milliseconds
FixedIsDuration ==
    dur.kind = "Fixed" =>
        /\ \A i \in 1 .. Len(yielded) : yielded[i] = dur.duration
        /\ dur.duration <= U64_MAX => iter = Fixed_from_millis(dur.duration)

\* C29: a strategy built from a Duration starts at that Duration: Fixed
\* yields it on every call and equals Fixed::from_millis of its milliseconds,
\* Exponential and Fibonacci yield its milliseconds as their first value,
\* for every representable Duration.
C29_StartsAtDuration == FixedIsDuration /\ FirstIsDuration

\* what does hold: the first value of Exponential and Fibonacci is the
\* Duration's milliseconds modulo 2^64, which is the Duration itself up to
\* u64::MAX milliseconds
C29_StartsAtDurationModulo ==
    /\ FixedIsDuration
    /\ dur.kind \in {"Exponential", "Fibonacci"} /\ yielded # <<>> =>
          /\ yielded[1] = dur.duration % Pow2(U64Bits)
          /\ dur.duration <= U64_MAX => yielded[1] = dur.duration

-----------------------------------------------------------------------------
(* RetryFuture: errors *)

\* every call of the operation made by the RetryFuture failed, retryably or
\* fatally
FutAllFailed == \A j \in 1 .. fut.calls : TryOutput(script[j]).kind = "Err"

\* C30: RetryFuture treats every error of the operation's future as
\* retryable: it resolves to an error only when a failure finds the delay
\* sequence exhausted, so with N delays and an operation that always fails
\* it makes N + 1 attempts, and no error of the operation ends it while
\* delays remain.
C30_EveryErrorRetried ==
    /\ fut.result.kind = "Err" =>
          /\ fut.delay = Len(delays)
          /\ fut.nexts = Len(delays) + 1
          /\ fut.calls = Len(delays) + 1
          /\ fut.result.tries = Len(delays) + 1
          /\ fut.result.total_delay = SumSeq(delays)
    /\ fut.pc = "done" /\ FutAllFailed => fut.calls = Len(delays) + 1
    /\ fut.pc = "done" /\ fut.delay < Len(delays) => fut.result.kind = "Ok"

C30_Witness ==
    /\ fut.pc = "done" /\ fut.result.kind = "Err"
    /\ Len(delays) = 3 /\ fut.calls = 4
    /\ opType = "OperationResult"
    /\ script[1].kind = "Err" /\ script[2].kind = "Retry"

-----------------------------------------------------------------------------
(* RetryFuture: a poll that finds nothing ready *)

\* the step in which poll polls the future held by the current state and
\* that future reports Pending
PollFindsPending ==
    fut.pc = "poll" /\ ~fut.ready /\ ~fut'.ready /\ fut' # fut

\* the step in which the host enters poll
PollEntered == fut.pc = "idle" /\ fut'.pc = "poll"

\* state variant, counters and observations of the RetryFuture, the delay
\* sequence and the operation are as before the step
NothingDone ==
    /\ fut'.state = fut.state
    /\ fut'.tries = fut.tries /\ fut'.total_delay = fut.total_delay
    /\ fut'.delay = fut.delay /\ fut'.nexts = fut.nexts
    /\ fut'.calls = fut.calls /\ fut'.sleeps = fut.sleeps
    /\ fut'.result = fut.result
    /\ UNCHANGED <<delays, script>>

\* C31: a poll of RetryFuture in which the future of the current state (the
\* operation's in Running, the sleep's in Sleeping) reports not ready
\* returns Pending and changes nothing: the state variant, tries,
\* total_delay and the delay sequence are untouched, the operation is not
\* called and no sleep is requested.
C31_PendingChangesNothing ==
    [][/\ PollEntered => NothingDone
       /\ PollFindsPending => fut'.pc = "idle" /\ NothingDone]_vars

C31_Witness ==
    /\ fut.pc = "idle" /\ fut.registered /\ ~fut.woken
    /\ fut.state = "Running" /\ ~fut.ready
    /\ fut.calls = 3 /\ fut.tries = 3
    /\ fut.sleeps = <<1, 1>>

-----------------------------------------------------------------------------
(* RetryFuture: one call of poll *)

\* C32: every call of RetryFuture::poll returns, Ready or Pending, after
\* finitely many steps, also with a delay sequence that never ends and with
\* operation and sleep futures that are ready whenever they are polled.
C32_PollReturns == (fut.pc = "poll") ~> (fut.pc # "poll")

\* with a finite delay sequence every call of poll returns
C32_PollReturnsFinite == (fut.pc = "poll") ~> (fut.pc \in {"idle", "done"})

-----------------------------------------------------------------------------
(* total_delay *)

\* C33: adding each waited delay to total_delay never overflows Duration:
\* for every delay sequence no driver aborts at `total_delay += delay`, and
\* total_delay stays a Duration.
C33_TotalDelayNeverOverflows ==
    /\ sync.pc # "panicked" /\ sync.total_delay <= DURATION_MAX
    /\ asyn.pc # "panicked" /\ asyn.total_delay <= DURATION_MAX
    /\ fut.pc # "panicked" /\ fut.total_delay <= DURATION_MAX

\* what does hold: total_delay never wraps (it stays a Duration), and a
\* driver aborts only at an addition whose sum is not a Duration
C33_AbortsOnlyOnOverflow ==
    /\ sync.total_delay <= DURATION_MAX
    /\ asyn.total_delay <= DURATION_MAX
    /\ fut.total_delay <= DURATION_MAX
    /\ sync.pc = "panicked" => SumSeq(Prefix(delays, sync.iterator)) > DURATION_MAX
    /\ asyn.pc = "panicked" => SumSeq(Prefix(delays, asyn.durations)) > DURATION_MAX
    /\ fut.pc = "panicked" => SumSeq(Prefix(delays, fut.delay)) > DURATION_MAX

=============================================================================
